---------------------------- MODULE Spec2Model ----------------------------
(***************************************************************************)
(* The request handlers of the anonymous-feedback application              *)
(* (src/src/app/api/*/route.ts) as a state machine over the user          *)
(* collection.  send-message awaits the store twice (findOne, then save),  *)
(* so it is two actions and other requests interleave at the await; a      *)
(* handler with one store operation is one action.  verify-code's save     *)
(* writes one field that no other handler writes, so it is one action too. *)
(***************************************************************************)
EXTENDS Integers, Sequences, FiniteSets

(* ------------------------------ bounds -------------------------------- *)
\* The clock runs over 0..MaxTime.
MaxTime == 1
\* Messages stored or about to be stored.
MaxMsgs == 2

(* ----------------------------- universes ------------------------------ *)
\* Two accounts: u1 "alice", whose code expires at 1, and u2 "bob", whose
\* code expired at 0 and who never verified.
UserIds == {"u1", "u2"}
NoUser == "none"
\* Ids a session can carry: alice's, and one that resolves to no document.
SessionIds == {"u1", "u9"}
Sessions ==
  {[present |-> FALSE, user |-> NoUser], [present |-> TRUE, user |-> NoUser]}
    \cup {[present |-> TRUE, user |-> i] : i \in SessionIds}
\* The request slots of send-message: two requests can be in flight.
Procs == {"p1", "p2"}
NoProc == "-"
Contents == {"hi", "hi2"}
Codes == {"123456", "654321"}
\* Usernames as they arrive in a send-message body.
Usernames == {"alice", "carol"}
\* Usernames as they arrive in a verify-code body (possibly percent-encoded).
RawUsernames == {"al%69ce", "bob", "carol", "%"}
\* Values of the ?username= query parameter; NoParam is searchParams.get() = null.
NoParam == "<null>"
Candidates == {"alice", "bob", "carol", "al ice", NoParam}

VARIABLES
  users,     \* the user collection: id -> document
  now,       \* the server clock, what new Date() reads
  pending,   \* per send-message slot: the save the handler awaits, or idle
  last,      \* the step just taken: handler, request, response
  lastSet,   \* per user: the value of the latest successful preference update
  scenario,  \* the place of the run in the end-to-end scenario
  taken      \* per candidate: whether it has been reported as taken

vars == <<users, now, pending, last, lastSet, scenario, taken>>

(* ----------------------------- responses ------------------------------ *)
\* Response.json(body, { status })
Response(body, status) == [body |-> body, status |-> status]
\* The handler has not answered yet: it awaits the store.
Awaiting == [body |-> [awaiting |-> TRUE], status |-> 0]
\* The handler threw outside its try block: no response of its own.
Uncaught == [body |-> [uncaught |-> TRUE], status |-> -1]
Idle == [op |-> "idle"]
NoFault == "none"
NoDoc == [none |-> TRUE]
NoReq == [none |-> TRUE]
\* A step of a handler: the request, the response, the calls it made to the
\* persistence layer in order, the call that failed (if one did) and the
\* document the handler holds in its local variable (if it holds one).
Step(op, proc, req, res, calls) ==
  [op |-> op, proc |-> proc, req |-> req, res |-> res, calls |-> calls,
   fault |-> NoFault, doc |-> NoDoc]
\* A step in which the call named by fault threw.
Thrown(op, res, calls, fault) ==
  [op |-> op, proc |-> NoProc, req |-> NoReq, res |-> res, calls |-> calls,
   fault |-> fault, doc |-> NoDoc]

(* ------------------------------ the store ----------------------------- *)
\* UserModel.findOne({ username }): the id of the matching document, or NoUser.
FindOneByUsername(username) ==
  IF \E i \in UserIds : users[i].username = username
    THEN CHOOSE i \in UserIds : users[i].username = username
    ELSE NoUser

\* Messages stored, plus the ones handlers are about to push.
PendingPushes == Cardinality({p \in Procs : pending[p].op = "sendMessage"})
TotalMessages ==
  Len(users["u1"].messages) + Len(users["u2"].messages) + PendingPushes

TypeOK ==
  /\ now \in 0..MaxTime
  /\ \A i \in UserIds :
       /\ users[i].isVerified \in BOOLEAN
       /\ users[i].isAcceptingMessages \in BOOLEAN
       /\ users[i].verifyCode \in Codes
       /\ Len(users[i].messages) <= MaxMsgs
  /\ \A p \in Procs : pending[p].op \in {"idle", "sendMessage"}
  /\ taken \in [Candidates -> {"never", "once", "again"}]

\* The collection after the sign-up of the two accounts: unverified,
\* accepting messages (the schema default), no messages, a code and its expiry.
SignedUp ==
  [i \in UserIds |->
     [username |-> IF i = "u1" THEN "alice" ELSE "bob",
      isVerified |-> FALSE,
      verifyCode |-> IF i = "u1" THEN "123456" ELSE "654321",
      verifyCodeExpiry |-> IF i = "u1" THEN 1 ELSE 0,
      isAcceptingMessages |-> TRUE,
      messages |-> <<>>]]

Init ==
  /\ users = SignedUp
  /\ now = 0
  /\ pending = [p \in Procs |-> Idle]
  /\ last = Step("init", NoProc, NoReq, Awaiting, <<>>)
  /\ lastSet = [i \in UserIds |-> <<>>]
  /\ scenario = 1
  /\ taken = [c \in Candidates |-> "never"]

\* Time passes between any two store operations.
Tick ==
  /\ now < MaxTime
  /\ now' = now + 1
  /\ last' = Step("tick", NoProc, NoReq, Awaiting, <<>>)
  /\ UNCHANGED <<users, pending, lastSet>>

(* ------------------------ send-message: POST -------------------------- *)
\* if (!user.isAcceptingMessages): the recipient's gate.
\* The gate left out: every recipient is taken to accept.
GateOmitted(user) == TRUE
IsAcceptingMessages(user) == user.isAcceptingMessages

\* const newMessage = { content, createdAt: new Date() }
newMessage(content) == [content |-> content, createdAt |-> now]

\* findOne, the two early returns, the push and the call of save().
SendMessageFindOne(p, username, content) ==
  LET req == [username |-> username, content |-> content]
      id == FindOneByUsername(username)
  IN
  /\ pending[p].op = "idle"
  /\ IF id = NoUser
       THEN /\ last' = Step("sendMessage", NoProc, req,
                 Response([message |-> "User not found", success |-> FALSE], 404),
                 <<"dbConnect", "findOne">>)
            /\ UNCHANGED pending
       ELSE IF ~IsAcceptingMessages(users[id])
         THEN /\ last' = Step("sendMessage", NoProc, req,
                   Response([message |-> "User is not accepting messages",
                             success |-> FALSE], 403),
                   <<"dbConnect", "findOne">>)
              /\ UNCHANGED pending
         ELSE /\ TotalMessages < MaxMsgs
              /\ pending' = [pending EXCEPT ![p] =
                   [op |-> "sendMessage", id |-> id, req |-> req,
                    doc |-> users[id], push |-> newMessage(content)]]
              /\ last' = Step("sendMessage", p, req, Awaiting,
                   <<"dbConnect", "findOne">>)
  /\ UNCHANGED <<users, now, lastSet>>

\* user.messages.push(newMessage); await user.save(): what the store holds
\* after the save, given what it held, the document the handler read and the
\* message pushed.  save() sends the document's delta, a $push of the new
\* message onto the stored array; the fields the handler did not modify are
\* not written.
\* The whole document written back as it was read.
SaveWholeDocument(stored, doc, push) ==
  [doc EXCEPT !.messages = Append(@, push)]
\* The flag written back as it was read, with the push.
SaveWithFlag(stored, doc, push) ==
  [stored EXCEPT !.messages = Append(@, push),
                 !.isAcceptingMessages = doc.isAcceptingMessages]
\* The message put in front of the stored ones.
SavePrepending(stored, doc, push) ==
  [stored EXCEPT !.messages = <<push>> \o @]
Save(stored, doc, push) == [stored EXCEPT !.messages = Append(@, push)]

\* The store applies the save and the handler answers 201.
SendMessageSave(p) ==
  /\ pending[p].op = "sendMessage"
  /\ users' = [users EXCEPT ![pending[p].id] =
       Save(@, pending[p].doc, pending[p].push)]
  /\ pending' = [pending EXCEPT ![p] = Idle]
  /\ last' = [Step("sendMessage", p, pending[p].req,
                Response([message |-> "Message sent successfully",
                          success |-> TRUE], 201),
                <<"save">>)
              EXCEPT !.doc = [pending[p].doc EXCEPT
                                !.messages = Append(@, pending[p].push)]]
  /\ UNCHANGED <<now, lastSet>>

\* The calls of the handler that can throw: dbConnect (line 7) and
\* request.json (line 10) stand before the try block, findOne within it.
SendMessageFaults == {"dbConnect", "request.json", "findOne"}
SendMessageCaught(fault) == fault \in {"findOne", "save"}

SendMessageThrows(fault) ==
  /\ last' = Thrown("sendMessage",
       IF SendMessageCaught(fault)
         THEN Response([message |-> "Internal server error", success |-> FALSE], 500)
         ELSE Uncaught,
       IF fault = "findOne" THEN <<"dbConnect", "findOne">> ELSE <<"dbConnect">>,
       fault)
  /\ UNCHANGED <<users, now, pending, lastSet>>

\* save() rejects: nothing is stored, the catch block answers 500.
SendMessageSaveThrows(p) ==
  /\ pending[p].op = "sendMessage"
  /\ pending' = [pending EXCEPT ![p] = Idle]
  /\ last' = Thrown("sendMessage",
       IF SendMessageCaught("save")
         THEN Response([message |-> "Internal server error", success |-> FALSE], 500)
         ELSE Uncaught,
       <<"save">>, "save")
  /\ UNCHANGED <<users, now, lastSet>>

(* ------------------------- verify-code: POST -------------------------- *)
URIError == "<URIError>"
\* decodeURIComponent on the usernames of RawUsernames: %69 is "i", a lone
\* "%" is malformed and throws, a name without "%" is returned as it is.
decodeURIComponent(s) ==
  CASE s = "al%69ce" -> "alice"
    [] s = "%" -> URIError
    [] OTHER -> s

\* const isCodeValid = user.verifyCode === code
isCodeValid(user, code) == user.verifyCode = code

\* const isCodeNotExpired = new Date(user.verifyCodeExpiry) > new Date()
\* The comparison with >= in place of >.
isCodeNotExpiredInclusive(user) == user.verifyCodeExpiry >= now
isCodeNotExpired(user) == user.verifyCodeExpiry > now

\* The branch of the if / else if / else that the handler takes.
\* The last two branches in the other order: a wrong code is reported first.
VerifyOutcomeWrongCodeFirst(user, code) ==
  IF isCodeValid(user, code) /\ isCodeNotExpired(user) THEN "verified"
  ELSE IF ~isCodeValid(user, code) THEN "incorrect"
  ELSE "expired"
VerifyOutcome(user, code) ==
  IF isCodeValid(user, code) /\ isCodeNotExpired(user) THEN "verified"
  ELSE IF ~isCodeNotExpired(user) THEN "expired"
  ELSE "incorrect"

\* user.isVerified = true; await user.save()
\* The assignment of isVerified left out.
VerifySaveUnmodified(user) == user
\* The code invalidated on success.
VerifySaveClearingCode(user) ==
  [user EXCEPT !.isVerified = TRUE, !.verifyCodeExpiry = 0]
\* The flag flipped instead of set.
VerifySaveFlipping(user) == [user EXCEPT !.isVerified = ~user.isVerified]
VerifySave(user) == [user EXCEPT !.isVerified = TRUE]

\* The save as the store sees it: a document on which the assignment changed
\* nothing has no delta to write.
SaveCall(user) == IF VerifySave(user) = user THEN "save:unmodified" ELSE "save"

VerifyCodePOST(username, code) ==
  LET req == [username |-> username, code |-> code]
      decodedUsername == decodeURIComponent(username)
      id == FindOneByUsername(decodedUsername)
  IN
  /\ IF decodedUsername = URIError
       THEN /\ last' = Step("verify", NoProc, req,
                 Response([success |-> FALSE, message |-> "Error verifying user"], 500),
                 <<"dbConnect">>)
            /\ UNCHANGED users
       ELSE IF id = NoUser
         THEN /\ last' = Step("verify", NoProc, req,
                   Response([success |-> FALSE, message |-> "User not found"], 404),
                   <<"dbConnect", "findOne">>)
              /\ UNCHANGED users
         ELSE CASE VerifyOutcome(users[id], code) = "verified" ->
                     /\ users' = [users EXCEPT ![id] = VerifySave(@)]
                     /\ last' = Step("verify", NoProc, req,
                          Response([success |-> TRUE,
                                    message |-> "Account verified successfully"], 200),
                          <<"dbConnect", "findOne", SaveCall(users[id])>>)
                [] VerifyOutcome(users[id], code) = "expired" ->
                     /\ last' = Step("verify", NoProc, req,
                          Response([success |-> FALSE,
                            message |-> "Verification code has expired. Please sign up again to get a new code."],
                            400),
                          <<"dbConnect", "findOne">>)
                     /\ UNCHANGED users
                [] OTHER ->
                     /\ last' = Step("verify", NoProc, req,
                          Response([success |-> FALSE,
                                    message |-> "Incorrect verification code"], 400),
                          <<"dbConnect", "findOne">>)
                     /\ UNCHANGED users
  /\ UNCHANGED <<now, pending, lastSet>>

\* The calls that can throw: dbConnect (line 9) stands before the try block;
\* request.json, findOne and save are within it.
VerifyCodeFaults == {"dbConnect", "request.json", "findOne", "save"}
VerifyCodeCaught(fault) == fault \in {"request.json", "findOne", "save"}

VerifyCodeThrows(fault) ==
  /\ last' = Thrown("verify",
       IF VerifyCodeCaught(fault)
         THEN Response([success |-> FALSE, message |-> "Error verifying user"], 500)
         ELSE Uncaught,
       CASE fault = "findOne" -> <<"dbConnect", "findOne">>
         [] fault = "save" -> <<"dbConnect", "findOne", "save">>
         [] OTHER -> <<"dbConnect">>,
       fault)
  /\ UNCHANGED <<users, now, pending, lastSet>>

(* -------------------------- get-messages: GET ------------------------- *)
\* if (!session || !_user)
\* The test without !_user.
SessionPresent(session) == session.present
Authenticated(session) == session.present /\ session.user # NoUser

\* { $match: { _id: userId } }: the documents with that id, at most one.
\* The stage left out: every document of the collection goes on.
MatchOmitted(store, userId) ==
  <<[_id |-> "u2", messages |-> store["u2"].messages],
    [_id |-> "u1", messages |-> store["u1"].messages]>>
Match(store, userId) ==
  IF userId \in DOMAIN store
    THEN <<[_id |-> userId, messages |-> store[userId].messages]>>
    ELSE <<>>

\* { $unwind: '$messages' }: one document per element of the array; a
\* document whose array is empty yields no document.
RECURSIVE Unwind(_)
Unwind(docs) ==
  IF docs = <<>> THEN <<>>
  ELSE [k \in 1..Len(docs[1].messages) |->
          [_id |-> docs[1]._id, messages |-> docs[1].messages[k]]]
       \o Unwind(Tail(docs))

Permutations(n) == {f \in [1..n -> 1..n] : \A i, j \in 1..n : f[i] = f[j] => i = j}

\* { $sort: { 'messages.createdAt': -1 } }: the orders the stage can produce;
\* the order of documents with equal keys is not defined.
\* The stage with 1 in place of -1: oldest first.
SortAscending(docs) ==
  {s \in {[k \in 1..Len(docs) |-> docs[f[k]]] : f \in Permutations(Len(docs))} :
     \A k \in 1..Len(docs) - 1 :
       s[k].messages.createdAt <= s[k + 1].messages.createdAt}
Sort(docs) ==
  {s \in {[k \in 1..Len(docs) |-> docs[f[k]]] : f \in Permutations(Len(docs))} :
     \A k \in 1..Len(docs) - 1 :
       s[k].messages.createdAt >= s[k + 1].messages.createdAt}

\* { $group: { _id: '$_id', messages: { $push: '$messages' } } }: one
\* document per _id, the messages pushed in the order they arrive.  After
\* the $match there is one _id at most; groups are listed by first arrival.
RECURSIVE Group(_)
Group(docs) ==
  IF docs = <<>> THEN <<>>
  ELSE LET id == docs[1]._id
           same == SelectSeq(docs, LAMBDA d : d._id = id)
           rest == SelectSeq(docs, LAMBDA d : d._id # id)
       IN <<[_id |-> id, messages |-> [k \in 1..Len(same) |-> same[k].messages]]>>
            \o Group(rest)

\* UserModel.aggregate([...]).exec(): the results the pipeline can give.
Aggregate(store, userId) == {Group(s) : s \in Sort(Unwind(Match(store, userId)))}

\* if (!user || user.length === 0) 404, else { messages: user[0].messages }.
GetMessagesResponse(user) ==
  IF Len(user) = 0
    THEN Response([message |-> "User not found", success |-> FALSE], 404)
    ELSE Response([messages |-> user[1].messages], 200)

\* The responses the handler can give an authenticated caller.
GetMessagesResponses(store, userId) ==
  {GetMessagesResponse(user) : user \in Aggregate(store, userId)}

GetMessagesGET(session) ==
  /\ IF ~Authenticated(session)
       THEN last' = Step("getMessages", NoProc, session,
              Response([success |-> FALSE, message |-> "Not authenticated"], 401),
              <<"dbConnect">>)
       ELSE \E res \in GetMessagesResponses(users, session.user) :
              last' = Step("getMessages", NoProc, session, res,
                        <<"dbConnect", "aggregate">>)
  /\ UNCHANGED <<users, now, pending, lastSet>>

\* The calls that can throw: dbConnect (line 16), getServerSession (line 20)
\* and, for an authenticated caller, new ObjectId (line 34) stand before the
\* try block; aggregate is within it.
GetMessagesFaults == {"dbConnect", "getServerSession", "ObjectId", "aggregate"}
GetMessagesCaught(fault) == fault = "aggregate"

GetMessagesThrows(fault) ==
  /\ last' = Thrown("getMessages",
       IF GetMessagesCaught(fault)
         THEN Response([message |-> "Internal server error", success |-> FALSE], 500)
         ELSE Uncaught,
       IF fault = "aggregate" THEN <<"dbConnect", "aggregate">> ELSE <<"dbConnect">>,
       fault)
  /\ UNCHANGED <<users, now, pending, lastSet>>

(* ------------------------ accept-messages: POST ----------------------- *)
\* UserModel.findByIdAndUpdate(userId, { isAcceptingMessages: acceptMessages },
\* { new: true }): the document after the update.
\* The flag flipped instead of set.
UpdateFlipping(user, acceptMessages) ==
  [user EXCEPT !.isAcceptingMessages = ~user.isAcceptingMessages]
\* Turning the flag off also empties the inbox.
UpdateClearingMessages(user, acceptMessages) ==
  [user EXCEPT !.isAcceptingMessages = acceptMessages,
               !.messages = IF acceptMessages THEN @ ELSE <<>>]
Update(user, acceptMessages) == [user EXCEPT !.isAcceptingMessages = acceptMessages]

AcceptMessagesPOST(session, acceptMessages) ==
  LET req == [session |-> session, acceptMessages |-> acceptMessages]
      userId == session.user
  IN
  IF ~Authenticated(session)
    THEN /\ last' = Step("setAcceptingMessages", NoProc, req,
              Response([success |-> FALSE, message |-> "Not authenticated"], 401),
              <<"dbConnect">>)
         /\ UNCHANGED <<users, now, pending, lastSet>>
    ELSE IF userId \notin UserIds
      THEN /\ last' = Step("setAcceptingMessages", NoProc, req,
                Response([success |-> FALSE,
                  message |-> "Unable to find user to update message acceptance status"],
                  404),
                <<"dbConnect", "findByIdAndUpdate">>)
           /\ UNCHANGED <<users, now, pending, lastSet>>
      ELSE /\ users' = [users EXCEPT ![userId] = Update(@, acceptMessages)]
           /\ last' = Step("setAcceptingMessages", NoProc, req,
                Response([success |-> TRUE,
                  message |-> "Message acceptance status updated successfully",
                  updatedUser |-> users'[userId]], 200),
                <<"dbConnect", "findByIdAndUpdate">>)
           /\ lastSet' = [lastSet EXCEPT ![userId] = <<acceptMessages>>]
           /\ UNCHANGED <<now, pending>>

\* The calls that can throw: dbConnect (line 14), getServerSession (line 18)
\* and request.json (line 36) stand before the try block; findByIdAndUpdate
\* is within it.
AcceptMessagesPOSTFaults ==
  {"dbConnect", "getServerSession", "request.json", "findByIdAndUpdate"}
AcceptMessagesPOSTCaught(fault) == fault = "findByIdAndUpdate"

AcceptMessagesPOSTThrows(fault) ==
  /\ last' = Thrown("setAcceptingMessages",
       IF AcceptMessagesPOSTCaught(fault)
         THEN Response([success |-> FALSE,
                message |-> "Error updating message acceptance status"], 500)
         ELSE Uncaught,
       IF fault = "findByIdAndUpdate"
         THEN <<"dbConnect", "findByIdAndUpdate">> ELSE <<"dbConnect">>,
       fault)
  /\ UNCHANGED <<users, now, pending, lastSet>>

(* ------------------------ accept-messages: GET ------------------------ *)
\* isAcceptingMessages: foundUser.isAcceptingMessages
FoundFlag(foundUser) == foundUser.isAcceptingMessages

AcceptMessagesGET(session) ==
  /\ IF ~Authenticated(session)
       THEN last' = Step("getAcceptingMessages", NoProc, session,
              Response([success |-> FALSE, message |-> "Not authenticated"], 401),
              <<"dbConnect">>)
       ELSE IF session.user \notin UserIds
         THEN last' = Step("getAcceptingMessages", NoProc, session,
                Response([success |-> FALSE, message |-> "User not found"], 404),
                <<"dbConnect", "findById">>)
         ELSE last' = Step("getAcceptingMessages", NoProc, session,
                Response([success |-> TRUE,
                          isAcceptingMessages |-> FoundFlag(users[session.user])], 200),
                <<"dbConnect", "findById">>)
  /\ UNCHANGED <<users, now, pending, lastSet>>

\* The calls that can throw: dbConnect (line 78) and getServerSession
\* (line 81) stand before the try block; findById is within it.
AcceptMessagesGETFaults == {"dbConnect", "getServerSession", "findById"}
AcceptMessagesGETCaught(fault) == fault = "findById"

AcceptMessagesGETThrows(fault) ==
  /\ last' = Thrown("getAcceptingMessages",
       IF AcceptMessagesGETCaught(fault)
         THEN Response([success |-> FALSE,
                message |-> "Error retrieving message acceptance status"], 500)
         ELSE Uncaught,
       IF fault = "findById" THEN <<"dbConnect", "findById">> ELSE <<"dbConnect">>,
       fault)
  /\ UNCHANGED <<users, now, pending, lastSet>>

(* --------------------- check-username-unique: GET --------------------- *)
\* The sign-up ruleset for usernames (shape, length, characters): the
\* candidates that pass it.  A missing parameter and a name with a blank fail.
usernameValidation(candidate) == candidate \in {"alice", "bob", "carol"}

\* UsernameQuerySchema.safeParse(queryParams).success
\* The result of the parse not looked at.
SafeParseIgnored(candidate) == TRUE
SafeParse(candidate) == usernameValidation(candidate)

\* UserModel.findOne({ username, isVerified: true })
\* The query without isVerified: true.
existingUser(username) == \E i \in UserIds : users[i].username = username
existingVerifiedUser(username) ==
  \E i \in UserIds : users[i].username = username /\ users[i].isVerified = TRUE

\* dbConnect is awaited first (line 18), then the parameter is validated,
\* then the store is queried.
CheckUsernameUniqueGET(candidate) ==
  /\ IF ~SafeParse(candidate)
       THEN last' = Step("checkUsernameUnique", NoProc, candidate,
              Response([success |-> FALSE, message |-> "<username errors>"], 400),
              <<"dbConnect">>)
       ELSE IF existingVerifiedUser(candidate)
         THEN last' = Step("checkUsernameUnique", NoProc, candidate,
                Response([success |-> FALSE, message |-> "Username is already taken"], 200),
                <<"dbConnect", "findOne">>)
         ELSE last' = Step("checkUsernameUnique", NoProc, candidate,
                Response([success |-> TRUE, message |-> "Username is unique"], 200),
                <<"dbConnect", "findOne">>)
  /\ UNCHANGED <<users, now, pending, lastSet>>

\* The calls that can throw: dbConnect stands before the try block, findOne
\* is within it.
CheckUsernameUniqueFaults == {"dbConnect", "findOne"}
CheckUsernameUniqueCaught(fault) == fault = "findOne"

CheckUsernameUniqueThrows(fault) ==
  /\ last' = Thrown("checkUsernameUnique",
       IF CheckUsernameUniqueCaught(fault)
         THEN Response([success |-> FALSE, message |-> "Error checking username"], 500)
         ELSE Uncaught,
       IF fault = "findOne" THEN <<"dbConnect", "findOne">> ELSE <<"dbConnect">>,
       fault)
  /\ UNCHANGED <<users, now, pending, lastSet>>

(* ---------------------------- the scenario ---------------------------- *)
\* The end-to-end scenario of alice, followed step by step: scenario is the
\* number of the next step (1 to 6), 7 when all six are done, 0 when the run
\* has left the scenario.  Only the requests decide, never the responses.
AliceSession == [present |-> TRUE, user |-> "u1"]

ScenarioStep(k) ==
  /\ last'.fault = NoFault
  /\ CASE k = 1 -> /\ last'.op = "verify"
                   /\ decodeURIComponent(last'.req.username) = "alice"
                   /\ last'.req.code = "123456"
                   /\ now < users["u1"].verifyCodeExpiry
       [] k = 2 -> /\ last'.op = "verify"
                   /\ decodeURIComponent(last'.req.username) = "alice"
                   /\ last'.req.code = "123456"
                   /\ now >= users["u1"].verifyCodeExpiry
       [] k = 3 -> /\ last'.op = "sendMessage"
                   /\ last'.calls = <<"dbConnect", "findOne">>
                   /\ last'.req = [username |-> "alice", content |-> "hi"]
       [] k = 4 -> /\ last'.op = "sendMessage"
                   /\ last'.calls = <<"save">>
       [] k = 5 -> /\ last'.op = "setAcceptingMessages"
                   /\ last'.req = [session |-> AliceSession, acceptMessages |-> FALSE]
       [] k = 6 -> /\ last'.op = "sendMessage"
                   /\ last'.calls = <<"dbConnect", "findOne">>
                   /\ last'.req = [username |-> "alice", content |-> "hi2"]
       [] OTHER -> FALSE

ScenarioNext ==
  IF last'.op = "tick" THEN scenario
  ELSE IF scenario \in 1..6 /\ ScenarioStep(scenario) THEN scenario + 1
  ELSE 0

(* ------------------------ the reports of taken ------------------------ *)
\* The reports of checkUsernameUnique, followed per candidate: "never" until
\* the candidate is reported as taken, "once" from then on, "again" in the
\* state right after a further such report.
TakenNext ==
  [c \in Candidates |->
     IF /\ last'.fault = NoFault
        /\ last'.op = "checkUsernameUnique"
        /\ last'.req = c
        /\ last'.res.status = 200
        /\ last'.res.body.success = FALSE
       THEN IF taken[c] = "never" THEN "once" ELSE "again"
       ELSE IF taken[c] = "again" THEN "once" ELSE taken[c]]

(* --------------------------- the system ------------------------------- *)
\* The handlers when every call they make returns.
Handlers ==
  \/ Tick
  \/ \E p \in Procs, u \in Usernames, c \in Contents : SendMessageFindOne(p, u, c)
  \/ \E p \in Procs : SendMessageSave(p)
  \/ \E u \in RawUsernames, c \in Codes : VerifyCodePOST(u, c)
  \/ \E s \in Sessions : GetMessagesGET(s)
  \/ \E s \in Sessions, v \in BOOLEAN : AcceptMessagesPOST(s, v)
  \/ \E s \in Sessions : AcceptMessagesGET(s)
  \/ \E c \in Candidates : CheckUsernameUniqueGET(c)

\* The handlers when one of their calls throws.
Throws ==
  \/ \E f \in SendMessageFaults : SendMessageThrows(f)
  \/ \E p \in Procs : SendMessageSaveThrows(p)
  \/ \E f \in VerifyCodeFaults : VerifyCodeThrows(f)
  \/ \E f \in GetMessagesFaults : GetMessagesThrows(f)
  \/ \E f \in AcceptMessagesPOSTFaults : AcceptMessagesPOSTThrows(f)
  \/ \E f \in AcceptMessagesGETFaults : AcceptMessagesGETThrows(f)
  \/ \E f \in CheckUsernameUniqueFaults : CheckUsernameUniqueThrows(f)

Next == Handlers /\ scenario' = ScenarioNext /\ UNCHANGED taken

NextWithFaults ==
  (Handlers \/ Throws) /\ scenario' = ScenarioNext /\ UNCHANGED taken

NextWithReports == Handlers /\ scenario' = ScenarioNext /\ taken' = TakenNext

\* The service with its database and its clients well behaved.
Spec == Init /\ [][Next]_vars

\* The service when calls may throw as well.
SpecWithFaults == Init /\ [][NextWithFaults]_vars

\* The service with the reports of checkUsernameUnique followed in taken.
SpecWithReports == Init /\ [][NextWithReports]_vars

(* ------------------------------ claims -------------------------------- *)
\* The stored document a username names, as a set of ids (empty or one id).
Holders(username) == {i \in UserIds : users[i].username = username}

\* A send-message step that reads the user and returns: no slot finishes its
\* save.
SendReads ==
  /\ last'.fault = NoFault
  /\ last'.op = "sendMessage"
  /\ last'.res.status # 201

\* C1: a sendMessage that reads an existing user whose isAcceptingMessages is
\* false answers 403 with success = false and leaves that user's messages
\* as they were.
C1_ForbiddenKeepsMessages ==
  [][\A i \in UserIds :
       (SendReads /\ users[i].username = last'.req.username
          /\ ~users[i].isAcceptingMessages)
       => /\ last'.res.status = 403
          /\ last'.res.body.success = FALSE
          /\ users'[i].messages = users[i].messages]_vars

\* C1 witness: a 403 was answered for a user who holds a message.
C1_Witness ==
  /\ last.op = "sendMessage"
  /\ last.res.status = 403
  /\ \E i \in Holders(last.req.username) :
       ~users[i].isAcceptingMessages /\ Len(users[i].messages) >= 1

\* C2: getMessages for an authenticated caller whose document exists and
\* holds no message answers 200 with an empty sequence, not an error.
C2_EmptyIsSuccess ==
  (/\ last.fault = NoFault
   /\ last.op = "getMessages"
   /\ Authenticated(last.req)
   /\ last.req.user \in UserIds
   /\ users[last.req.user].messages = <<>>)
  => /\ last.res.status = 200
     /\ last.res.body.messages = <<>>

\* The number of times x occurs in the sequence s.
Count(s, x) == Cardinality({k \in 1..Len(s) : s[k] = x})

\* C3: getMessages for an authenticated caller with N >= 1 stored messages
\* answers 200 with exactly N messages, a permutation of the stored ones,
\* createdAt non-increasing from first to last.
C3_AllMessagesNewestFirst ==
  (/\ last.fault = NoFault
   /\ last.op = "getMessages"
   /\ Authenticated(last.req)
   /\ last.req.user \in UserIds
   /\ Len(users[last.req.user].messages) >= 1)
  => LET stored == users[last.req.user].messages
         got == last.res.body.messages
     IN /\ last.res.status = 200
        /\ Len(got) = Len(stored)
        /\ \A k \in 1..Len(stored) : Count(got, stored[k]) = Count(stored, stored[k])
        /\ \A k \in 1..Len(got) - 1 : got[k].createdAt >= got[k + 1].createdAt

\* C3 witness: two messages came back in an order other than the stored one.
C3_Witness ==
  /\ last.op = "getMessages"
  /\ last.res.status = 200
  /\ Len(last.res.body.messages) >= 2
  /\ last.res.body.messages # users[last.req.user].messages

ExpiredMessage ==
  "Verification code has expired. Please sign up again to get a new code."

\* C4 as stated: verify for an existing user with a code other than the
\* stored one answers 400 'Incorrect verification code', expired or not.
C4_WrongCodeAlwaysInvalid ==
  [][\A i \in UserIds :
       (/\ last'.fault = NoFault
        /\ last'.op = "verify"
        /\ decodeURIComponent(last'.req.username) = users[i].username
        /\ last'.req.code # users[i].verifyCode)
       => /\ last'.res.status = 400
          /\ last'.res.body.message = "Incorrect verification code"]_vars

\* C4 amended: verify for an existing user with a code other than the stored
\* one answers 400 'Incorrect verification code' when the time is strictly
\* before verifyCodeExpiry, and 400 with the code-expired message otherwise.
C4_WrongCodeInvalidUnlessExpired ==
  [][\A i \in UserIds :
       (/\ last'.fault = NoFault
        /\ last'.op = "verify"
        /\ decodeURIComponent(last'.req.username) = users[i].username
        /\ last'.req.code # users[i].verifyCode)
       => /\ last'.res.status = 400
          /\ last'.res.body.success = FALSE
          /\ last'.res.body.message =
               IF now < users[i].verifyCodeExpiry
                 THEN "Incorrect verification code"
                 ELSE ExpiredMessage]_vars

\* C4 witness: a wrong code was refused as incorrect before the expiry.
C4_Witness ==
  /\ last.op = "verify"
  /\ last.res.body.message = "Incorrect verification code"
  /\ \E i \in Holders(decodeURIComponent(last.req.username)) :
       last.req.code # users[i].verifyCode /\ now < users[i].verifyCodeExpiry

\* C5: verify for an existing user with the stored code, strictly before
\* verifyCodeExpiry, stores isVerified = true and answers 200, success = true.
C5_ValidCodeVerifies ==
  [][\A i \in UserIds :
       (/\ last'.fault = NoFault
        /\ last'.op = "verify"
        /\ decodeURIComponent(last'.req.username) = users[i].username
        /\ last'.req.code = users[i].verifyCode
        /\ now < users[i].verifyCodeExpiry)
       => /\ users'[i].isVerified = TRUE
          /\ last'.res.status = 200
          /\ last'.res.body.success = TRUE]_vars

\* C5 witness: a verify answered 200 and the user is stored as verified.
C5_Witness ==
  /\ last.op = "verify"
  /\ last.res.status = 200
  /\ \E i \in Holders(decodeURIComponent(last.req.username)) :
       users[i].isVerified /\ last.req.code = users[i].verifyCode

\* C6: verify for an existing user with the stored code at or after
\* verifyCodeExpiry answers 400 code-expired and leaves isVerified as it was.
C6_ExpiredCodeRefused ==
  [][\A i \in UserIds :
       (/\ last'.fault = NoFault
        /\ last'.op = "verify"
        /\ decodeURIComponent(last'.req.username) = users[i].username
        /\ last'.req.code = users[i].verifyCode
        /\ now >= users[i].verifyCodeExpiry)
       => /\ last'.res.status = 400
          /\ last'.res.body.message = ExpiredMessage
          /\ users'[i].isVerified = users[i].isVerified]_vars

\* C6 witness: the stored code was refused at exactly the expiry instant,
\* after the clock had run up to it.
C6_Witness ==
  /\ last.op = "verify"
  /\ last.res.status = 400
  /\ now >= 1
  /\ \E i \in Holders(decodeURIComponent(last.req.username)) :
       last.req.code = users[i].verifyCode /\ now = users[i].verifyCodeExpiry

\* C7: verify writes only on success: a 404 or 400 leaves every document as
\* it was, and a 200 changes nothing but isVerified of the user it names.
C7_VerifyWritesOnlyIsVerified ==
  [][last'.op = "verify" =>
       /\ last'.res.status \in {404, 400} => users' = users
       /\ last'.res.status = 200 =>
            \A i \in UserIds :
              /\ users'[i] = [users[i] EXCEPT !.isVerified = users'[i].isVerified]
              /\ users[i].username # decodeURIComponent(last'.req.username)
                   => users'[i] = users[i]]_vars

\* C7 witness: after a successful verify the user still holds the code, its
\* expiry and a message.
C7_Witness ==
  /\ last.op = "verify"
  /\ last.res.status = 200
  /\ \E i \in Holders(decodeURIComponent(last.req.username)) :
       /\ users[i].verifyCode = last.req.code
       /\ users[i].verifyCodeExpiry >= 1
       /\ Len(users[i].messages) >= 1

\* C8: for a candidate that passes the ruleset, checkUsernameUnique answers
\* success = true exactly when no verified user holds that username.
C8_AvailableIffNoVerifiedHolder ==
  (/\ last.fault = NoFault
   /\ last.op = "checkUsernameUnique"
   /\ usernameValidation(last.req))
  => /\ last.res.status = 200
     /\ last.res.body.success = TRUE
          <=> ~\E i \in Holders(last.req) : users[i].isVerified

\* C8 witness: a name held by an unverified user was reported available.
C8_Witness ==
  /\ last.op = "checkUsernameUnique"
  /\ last.res.body.success = TRUE
  /\ \E i \in Holders(last.req) : ~users[i].isVerified

\* A successful preference update of user i to value v, as the step taken.
SetOk(step, i, v) ==
  /\ step.op = "setAcceptingMessages"
  /\ step.res.status = 200
  /\ step.req.session.user = i
  /\ step.req.acceptMessages = v

\* C9: set(false) directly followed by set(true) leaves the flag true; a
\* set(v) after a successful set(v) with no other set between leaves the
\* stored state as it was; a successful get after a successful set(v) with
\* no other set between returns v.
C9_SetGetRoundTrip ==
  [][\A i \in UserIds :
       /\ (SetOk(last, i, FALSE) /\ SetOk(last', i, TRUE))
            => users'[i].isAcceptingMessages = TRUE
       /\ \A v \in BOOLEAN :
            (SetOk(last', i, v) /\ lastSet[i] = <<v>>) => users' = users
       /\ (/\ last'.op = "getAcceptingMessages"
           /\ last'.res.status = 200
           /\ last'.req.user = i
           /\ lastSet[i] # <<>>)
            => last'.res.body.isAcceptingMessages = lastSet[i][1]]_vars

\* C9 witness: a get returned false, the value of the latest set, with a
\* message stored for the user.
C9_Witness ==
  /\ last.op = "getAcceptingMessages"
  /\ last.res.status = 200
  /\ lastSet[last.req.user] = <<FALSE>>
  /\ last.res.body.isAcceptingMessages = FALSE

\* C10: a message is added to a user's stored messages only in a step taken
\* while that user's stored isAcceptingMessages is true.
C10_AppendOnlyWhileAccepting ==
  [][\A i \in UserIds :
       Len(users'[i].messages) > Len(users[i].messages)
         => users[i].isAcceptingMessages]_vars

\* The session a session-guarded request came with.
SessionOf(step) ==
  IF step.op = "setAcceptingMessages" THEN step.req.session ELSE step.req

SessionGuarded == {"getMessages", "setAcceptingMessages", "getAcceptingMessages"}

\* C11: getMessages, setAcceptingMessages and getAcceptingMessages, called
\* with no session or with a session that carries no user, answer 401, make
\* no call on the store (the connection is opened, nothing is read or
\* written) and leave every document as it was.
C11_FailClosed ==
  [][(/\ last'.fault = NoFault
      /\ last'.op \in SessionGuarded
      /\ (~SessionOf(last').present \/ SessionOf(last').user = NoUser))
     => /\ last'.res.status = 401
        /\ last'.res.body = [success |-> FALSE, message |-> "Not authenticated"]
        /\ last'.calls = <<"dbConnect">>
        /\ users' = users]_vars

\* C11 witness: a preference update whose session carries no user was
\* answered 401 while alice holds a message.
C11_Witness ==
  /\ last.op = "setAcceptingMessages"
  /\ last.res.status = 401
  /\ last.req.session.present /\ last.req.session.user = NoUser
  /\ last.req.acceptMessages = FALSE
  /\ users["u1"].isAcceptingMessages
  /\ Len(users["u1"].messages) >= 1

\* C12: whenever a call made while serving a request throws, the handler
\* returns the 500 JSON error response with success = false; nothing escapes
\* the handler.
C12_EveryFailureIs500 ==
  last.fault # NoFault
    => /\ last.res.status = 500
       /\ last.res.body.success = FALSE

\* C13 as stated: checkUsernameUnique with a candidate that fails the ruleset
\* (a missing parameter included) answers 400 with success = false, and the
\* request has made no persistence call by then, neither the opening of the
\* connection nor a store query.
C13_InvalidBeforeAnyPersistence ==
  (/\ last.fault = NoFault
   /\ last.op = "checkUsernameUnique"
   /\ ~usernameValidation(last.req))
  => /\ last.res.status = 400
     /\ last.res.body.success = FALSE
     /\ last.calls = <<>>

\* C13 amended: checkUsernameUnique with a candidate that fails the ruleset
\* (a missing parameter included) answers 400 with success = false, and the
\* request has made no store query by then; the connection is opened first.
C13_InvalidBeforeAnyQuery ==
  (/\ last.fault = NoFault
   /\ last.op = "checkUsernameUnique"
   /\ ~usernameValidation(last.req))
  => /\ last.res.status = 400
     /\ last.res.body.success = FALSE
     /\ last.calls = <<"dbConnect">>

\* C13 witness: a request without the username parameter was answered 400.
C13_Witness ==
  /\ last.op = "checkUsernameUnique"
  /\ last.req = NoParam
  /\ last.res.status = 400

\* What the scenario expects of its step k, once the step is taken.
ScenarioOutcome(k) ==
  CASE k = 1 -> /\ last'.res.status = 200
                /\ last'.res.body.success = TRUE
                /\ users'["u1"].isVerified = TRUE
    [] k = 2 -> /\ last'.res.status = 400
                /\ last'.res.body.message = ExpiredMessage
    [] k = 3 -> /\ users["u1"].isAcceptingMessages = TRUE
                /\ last'.res = Awaiting
    [] k = 4 -> /\ last'.res.status = 201
                /\ last'.res.body.success = TRUE
                /\ Len(users'["u1"].messages) = 1
                /\ users'["u1"].messages[1].content = "hi"
    [] k = 5 -> /\ last'.res.status = 200
                /\ users'["u1"].isAcceptingMessages = FALSE
    [] k = 6 -> /\ last'.res.status = 403
                /\ last'.res.body.success = FALSE
                /\ Len(users'["u1"].messages) = 1
    [] OTHER -> TRUE

\* C14: in the end-to-end scenario (alice signed up with code 123456;
\* verify before the expiry; verify after it; send 'hi'; turn the preference
\* off; send 'hi2') each step has the stated outcome: 200 and isVerified
\* true, then the code-expired answer, then 201 with one message stored,
\* then 403 with still one message stored.
C14_EndToEndScenario ==
  [][\A k \in 1..6 :
       (scenario = k /\ scenario' = k + 1) => ScenarioOutcome(k)]_vars

\* C14 witness: the six steps of the scenario were taken, in order.
C14_Witness == scenario = 7

\* A verify step that returned, naming user i with the stored code strictly
\* before the expiry.
VerifiesInTime(i) ==
  /\ last'.fault = NoFault
  /\ last'.op = "verify"
  /\ decodeURIComponent(last'.req.username) = users[i].username
  /\ last'.req.code = users[i].verifyCode
  /\ now < users[i].verifyCodeExpiry

\* C15: isVerified of a user never goes back to false and becomes true only
\* in a verify step with the stored code before the expiry; every such step
\* answers 200 and leaves isVerified true, and when isVerified was already
\* true it leaves the whole store as it was.
C15_VerifyOnceAndIdempotent ==
  [][\A i \in UserIds :
       /\ users[i].isVerified => users'[i].isVerified
       /\ (~users[i].isVerified /\ users'[i].isVerified) => VerifiesInTime(i)
       /\ VerifiesInTime(i)
            => /\ last'.res.status = 200
               /\ last'.res.body.success = TRUE
               /\ users'[i].isVerified
               /\ users[i].isVerified => users' = users]_vars

\* C15 witness: a second verify with the same code before the expiry was
\* answered 200 for a user already verified.
C15_Witness ==
  /\ last.op = "verify"
  /\ last.res.status = 200
  /\ last.calls = <<"dbConnect", "findOne", "save:unmodified">>
  /\ \E i \in Holders(decodeURIComponent(last.req.username)) :
       /\ users[i].isVerified
       /\ last.req.code = users[i].verifyCode
       /\ now < users[i].verifyCodeExpiry

\* Message sequences another user's document may hold.
OtherMessages ==
  {<<>>,
   <<[content |-> "hi", createdAt |-> 0]>>,
   <<[content |-> "hi2", createdAt |-> 1], [content |-> "hi", createdAt |-> 0]>>}

\* The stores that agree with the current one on the caller's document and
\* differ from it in the other users' documents.
StoresAgreeingOn(caller) ==
  {[i \in UserIds |->
      IF i = caller THEN users[i]
      ELSE [users[i] EXCEPT !.messages = f[i].messages,
                            !.isVerified = f[i].isVerified,
                            !.isAcceptingMessages = f[i].isAcceptingMessages]] :
     f \in [UserIds -> [messages : OtherMessages, isVerified : BOOLEAN,
                        isAcceptingMessages : BOOLEAN]]}

\* C16: the answer of getMessages to an authenticated caller is an answer it
\* gives on every store that agrees on the caller's document, whatever the
\* other users' documents hold, and the answers possible are the same on all
\* of them.
C16_OwnDocumentOnly ==
  (/\ last.fault = NoFault
   /\ last.op = "getMessages"
   /\ Authenticated(last.req))
  => \A alt \in StoresAgreeingOn(last.req.user) :
       /\ last.res \in GetMessagesResponses(alt, last.req.user)
       /\ GetMessagesResponses(alt, last.req.user)
            = GetMessagesResponses(users, last.req.user)

\* C16 witness: alice was given her two messages while bob's document exists
\* beside hers.
C16_Witness ==
  /\ last.op = "getMessages"
  /\ last.req = AliceSession
  /\ last.res.status = 200
  /\ Len(last.res.body.messages) = 2
  /\ users["u2"] # users["u1"]

\* C17: a sendMessage answered 201 has appended one message at the end of the
\* named user's messages, with the request's content and a createdAt set by
\* the server: the length grows by one, the earlier messages are kept in
\* place and no other user's document changes.  A sendMessage that names no
\* user is answered 404 and changes no document.
C17_AppendsExactlyOne ==
  [][/\ (last'.op = "sendMessage" /\ last'.res.status = 201)
          => \E i \in Holders(last'.req.username) :
               LET before == users[i].messages
                   after == users'[i].messages
               IN /\ Len(after) = Len(before) + 1
                  /\ SubSeq(after, 1, Len(before)) = before
                  /\ after[Len(after)].content = last'.req.content
                  /\ after[Len(after)].createdAt \in 0..now
                  /\ \A j \in UserIds \ {i} : users'[j] = users[j]
     /\ (SendReads /\ Holders(last'.req.username) = {})
          => /\ last'.res.status = 404
             /\ last'.res.body.success = FALSE
             /\ users' = users]_vars

\* C17 witness: a 201 was answered and the new message stands last, behind
\* an earlier one with another content.
C17_Witness ==
  /\ last.op = "sendMessage"
  /\ last.res.status = 201
  /\ \E i \in Holders(last.req.username) :
       /\ Len(users[i].messages) >= 2
       /\ users[i].messages[Len(users[i].messages)].content = last.req.content
       /\ users[i].messages[1].content # last.req.content

\* C17 witness of the other case: a send to a name that no user holds was
\* answered 404.
C17_WitnessNotFound ==
  /\ last.op = "sendMessage"
  /\ last.res.status = 404
  /\ Holders(last.req.username) = {}

\* C18: a setAcceptingMessages answered 200 changes nothing but
\* isAcceptingMessages of the session's user, which takes the requested
\* value: that user's messages, isVerified, verifyCode and verifyCodeExpiry
\* and every other document stay as they were.  When the session's id
\* resolves to no document the answer is 404 and the store, its set of
\* documents included, stays as it was.
C18_SetChangesOnlyTheFlag ==
  [][(last'.fault = NoFault /\ last'.op = "setAcceptingMessages") =>
       LET id == last'.req.session.user IN
       /\ last'.res.status = 200 =>
            /\ id \in UserIds
            /\ \A i \in UserIds :
                 users'[i] = IF i = id
                   THEN [users[i] EXCEPT
                           !.isAcceptingMessages = last'.req.acceptMessages]
                   ELSE users[i]
       /\ (Authenticated(last'.req.session) /\ id \notin UserIds) =>
            /\ last'.res.status = 404
            /\ last'.res.body.success = FALSE
       /\ last'.res.status # 200 =>
            /\ users' = users
            /\ DOMAIN users' = DOMAIN users]_vars

\* C18 witness: the preference was turned off for a verified user who keeps
\* a received message.
C18_Witness ==
  /\ last.op = "setAcceptingMessages"
  /\ last.res.status = 200
  /\ last.req.acceptMessages = FALSE
  /\ users[last.req.session.user].isAcceptingMessages = FALSE
  /\ users[last.req.session.user].isVerified
  /\ Len(users[last.req.session.user].messages) >= 1

\* C18 witness of the other case: an id that resolves to no document was
\* answered 404.
C18_WitnessNotFound ==
  /\ last.op = "setAcceptingMessages"
  /\ last.res.status = 404
  /\ last.req.session.user \notin UserIds

\* Slot p finishes its save with 201 in this step.
Saves(p) ==
  /\ pending[p].op = "sendMessage"
  /\ last'.fault = NoFault
  /\ last'.op = "sendMessage"
  /\ last'.proc = p
  /\ last'.res.status = 201

\* C19: when a sendMessage saves after another request to the same user,
\* which it ran beside, has saved (the stored messages have grown since this
\* request read the user), the messages stored afterwards are the ones
\* stored before the save followed by this request's message: the other
\* request's append is not lost.
C19_NoLostAppend ==
  [][\A p \in Procs :
       (/\ Saves(p)
        /\ Len(users[pending[p].id].messages) > Len(pending[p].doc.messages))
       => users'[pending[p].id].messages
            = Append(users[pending[p].id].messages, pending[p].push)]_vars

\* C19 witness: a request that read alice without messages got its 201 and
\* the store holds two messages, the other request's and its own.
C19_Witness ==
  /\ last.op = "sendMessage"
  /\ last.res.status = 201
  /\ Len(last.doc.messages) = 1
  /\ Len(users["u1"].messages) = 2
  /\ users["u1"].messages[2] = last.doc.messages[1]

\* C20: when a sendMessage saves the document it read earlier, the stored
\* isAcceptingMessages stays what it was just before the save, which is the
\* value v of the latest completed setAcceptingMessages(v) on that user, a
\* set that completed between the read and the save included: the flag the
\* request read is not written back.
C20_NoStaleFlagOverwrite ==
  [][\A p \in Procs : Saves(p) =>
       LET id == pending[p].id IN
       /\ users'[id].isAcceptingMessages = users[id].isAcceptingMessages
       /\ \A v \in BOOLEAN :
            lastSet[id] = <<v>> => users'[id].isAcceptingMessages = v]_vars

\* C20 witness: a request that read alice as accepting got its 201 after the
\* preference was turned off, and the stored flag is off.
C20_Witness ==
  /\ last.op = "sendMessage"
  /\ last.res.status = 201
  /\ last.doc.isAcceptingMessages = TRUE
  /\ lastSet["u1"] = <<FALSE>>
  /\ users["u1"].isAcceptingMessages = FALSE

\* checkUsernameUnique has just answered for the candidate c.
Checked(c) ==
  /\ last'.fault = NoFault
  /\ last'.op = "checkUsernameUnique"
  /\ last'.req = c

\* checkUsernameUnique has just reported the candidate c as taken.
ReportedTaken(c) ==
  /\ Checked(c)
  /\ last'.res.status = 200
  /\ last'.res.body.success = FALSE

\* C21: across every sequence of calls of the handlers no user document is
\* deleted or given another username and isVerified never goes from true
\* back to false; and once checkUsernameUnique has reported a username as
\* taken, every later checkUsernameUnique for that username reports it as
\* taken too.
C21_TakenStaysTaken ==
  [][/\ DOMAIN users' = DOMAIN users
     /\ \A i \in DOMAIN users :
          /\ users'[i].username = users[i].username
          /\ users[i].isVerified => users'[i].isVerified
     /\ \A c \in Candidates :
          (taken[c] # "never" /\ Checked(c)) => ReportedTaken(c)]_vars

\* C21 witness: alice's name was reported as taken a second time, after her
\* document had received a message and a preference update.
C21_Witness ==
  /\ last.op = "checkUsernameUnique"
  /\ last.req = "alice"
  /\ last.res.body.success = FALSE
  /\ taken["alice"] = "again"
  /\ Len(users["u1"].messages) >= 1
  /\ lastSet["u1"] = <<FALSE>>

=============================================================================
